---- MODULE Spec2Model ----
(***************************************************************************)
(* A model of the iter-map crate (src/src/lib.rs): the ParamFromFnIter     *)
(* iterator (a callback plus a piece of data handed to it on every pull),  *)
(* the iter_map extension method, and the callbacks of the crate's         *)
(* documentation examples and test.                                        *)
(***************************************************************************)
EXTENDS Integers, Sequences, FiniteSets, TLC

\* ------------------------------------------------------------- bounds
\* Longest generated source (array or string) of the documented callbacks.
MaxLen == 4
\* Longest generated source handed to a scripted (arbitrary) callback.
MaxScriptSrc == 2
\* Longest script of an arbitrary callback.
MaxScript == 3
\* Most pulls made on one iterator.
MaxPulls == 16
\* Largest chunk size handed to chunker(), and its longest generated source.
MaxChunk == 3
MaxChunkSrc == 4
\* Most pulls made when outer and chunk pulls are interleaved freely.
MaxFreePulls == 6

\* --------------------------------------------------- program constants
\* `if i % 3 == 0`
CounterPeriod == 3
\* `Some(0)`
InjectedItem == 0
\* 'o' and '0' as Unicode scalar values
CharO == 111
CharZero == 48
\* 'l', the other character of the generated strings
CharL == 108
\* `chunker(2, ...)`
DocChunkSize == 2

\* `[1, 2, 3, 4, 5, 6]`
DocArray == <<1, 2, 3, 4, 5, 6>>
\* "hello world!" as Unicode scalar values
DocString == <<104, 101, 108, 108, 111, 32, 119, 111, 114, 108, 100, 33>>

\* ------------------------------------------------------ Option<R>
None == <<"None">>
Some(v) == <<"Some", v>>
\* The outcome of a call that unwinds instead of returning.
Panic == <<"Panic">>

RECURSIVE SeqsUpTo(_, _)
SeqsUpTo(S, n) ==
    IF n = 0 THEN {<<>>}
    ELSE LET shorter == SeqsUpTo(S, n - 1)
         IN shorter \cup {Append(s, x) : s \in shorter, x \in S}

\* ------------------------------------------- the standard iterators used
\* A collection the examples call iter_map on: an array.
Array(items) == [kind |-> "array", items |-> items]
\* `"...".chars()`: an iterator over the characters of a string.
Chars(str) == [kind |-> "chars", buf |-> str, pos |-> 1]
\* `.peekable()`: peeked is Option<Option<Item>>, <<>> for the outer None.
Peekable(it) == [kind |-> "peekable", iter |-> it, peeked |-> <<>>]
\* `()`
Unit == [kind |-> "unit"]

\* A reference to the element at index p of the array being iterated.
Ref(p) == <<"ref", p>>

\* Iterator::next of slice::Iter (yields references) and of Chars (yields
\* values); both stay at the end once exhausted.
BaseNext(it) ==
    IF it.pos <= Len(it.buf)
    THEN [iter |-> [it EXCEPT !.pos = @ + 1],
          ret |-> IF it.kind = "slice_iter" THEN Some(Ref(it.pos))
                  ELSE Some(it.buf[it.pos])]
    ELSE [iter |-> it, ret |-> None]

\* Peekable::peek: fills the one-item buffer from the inner iterator if it
\* is empty, and hands back what the buffer holds.
PeekablePeek(pk) ==
    IF pk.peeked = <<>>
    THEN LET n == BaseNext(pk.iter)
         IN [iter |-> [pk EXCEPT !.iter = n.iter, !.peeked = <<n.ret>>],
             ret |-> n.ret]
    ELSE [iter |-> pk, ret |-> pk.peeked[1]]

\* Peekable::next: takes the buffered item if there is one, else pulls the
\* inner iterator.
PeekableNext(pk) ==
    IF pk.peeked # <<>>
    THEN [iter |-> [pk EXCEPT !.peeked = <<>>], ret |-> pk.peeked[1]]
    ELSE LET n == BaseNext(pk.iter)
         IN [iter |-> [pk EXCEPT !.iter = n.iter], ret |-> n.ret]

IterNext(it) ==
    IF it.kind = "peekable" THEN PeekableNext(it) ELSE BaseNext(it)

\* Option<&T>::copied: reads the referenced element of the array.
Copied(opt, it) ==
    IF opt = None THEN None ELSE Some(it.buf[opt[2][2]])

\* IntoIterator::into_iter: an array (by reference) gives a slice iterator
\* at its first element; an iterator gives itself.
into_iter(src) ==
    IF src.kind = "array"
    THEN [kind |-> "slice_iter", buf |-> src.items, pos |-> 1]
    ELSE src

\* The items an iterator has not handed out yet.
Remaining(it) ==
    CASE it.kind = "peekable" ->
            IF it.peeked = <<>>
            THEN SubSeq(it.iter.buf, it.iter.pos, Len(it.iter.buf))
            ELSE IF it.peeked[1] = None THEN <<>>
            ELSE <<it.peeked[1][2]>>
                 \o SubSeq(it.iter.buf, it.iter.pos, Len(it.iter.buf))
      [] it.kind = "unit" -> <<>>
      [] it.kind = "array" -> it.items
      [] OTHER -> SubSeq(it.buf, it.pos, Len(it.buf))

\* ------------------------------------------------------------ RefCell
\* Rc<RefCell<T>>: the one shared cell of the chunker example. borrow is the
\* cell's borrow flag: 0 when unused, -1 while a RefMut is alive.
RefCellNew(v) == [value |-> v, borrow |-> 0]
\* RefCell::borrow_mut: panics (ok = FALSE) when the cell is borrowed.
borrow_mut(cell) ==
    IF cell.borrow = 0
    THEN [ok |-> TRUE, cell |-> [cell EXCEPT !.borrow = 0 - 1]]
    ELSE [ok |-> FALSE, cell |-> cell]
\* Drop of the RefMut, leaving v behind in the cell.
drop_ref_mut(cell, v) == [cell EXCEPT !.value = v, !.borrow = @ + 1]

\* ------------------------------------------------------------ callbacks
\* What one invocation of a callback did: the callback's captured variables
\* and the data behind the mutable reference afterwards, the value returned
\* (or Panic), the data the reference showed on entry, and the calls it
\* made, in order, as <<name, whether it handed out an item>>.
Invoked(cb, d, ret, arg, events) ==
    [callback |-> cb, data |-> d, ret |-> ret, arg |-> arg, events |-> events]

Ev(name, n) == <<name, n.ret # None>>

\* The closure of the crate example and of tests::sanity_check.
CounterClosure == [kind |-> "counter", i |-> 0]
\* A slip: the counter is tested before it is incremented.
CounterCallback_TestsFirst(cb, d) ==
    LET n == IterNext(d)
    IN  IF cb.i % CounterPeriod = 0
        THEN Invoked([cb EXCEPT !.i = @ + 1], d, Some(InjectedItem), d, <<>>)
        ELSE Invoked([cb EXCEPT !.i = @ + 1], n.iter, Copied(n.ret, d), d,
                     <<Ev("next", n)>>)
CounterCallback(cb, d) ==
    LET i1 == cb.i + 1
        n  == IterNext(d)
    IN  IF i1 % CounterPeriod = 0
        THEN Invoked([cb EXCEPT !.i = i1], d, Some(InjectedItem), d, <<>>)
        ELSE Invoked([cb EXCEPT !.i = i1], n.iter, Copied(n.ret, d), d,
                     <<Ev("next", n)>>)

\* The closure of the iter_map example; b is the variable it borrows.
PeekingClosure == [kind |-> "peeking", b |-> TRUE]
\* A slip: the flag is not set again when a character is handed out.
PeekingCallback_NoReset(cb, d) ==
    LET p == PeekablePeek(d)
        n == PeekableNext(p.iter)
    IN  IF p.ret # None
        THEN IF p.ret[2] = CharO /\ cb.b
             THEN Invoked([cb EXCEPT !.b = FALSE], p.iter, Some(CharZero), d,
                          <<Ev("peek", p)>>)
             ELSE Invoked(cb, n.iter, n.ret, d,
                          <<Ev("peek", p), Ev("next", n)>>)
        ELSE Invoked(cb, p.iter, None, d, <<Ev("peek", p)>>)
PeekingCallback(cb, d) ==
    LET p == PeekablePeek(d)
        n == PeekableNext(p.iter)
    IN  IF p.ret # None
        THEN IF p.ret[2] = CharO /\ cb.b
             THEN Invoked([cb EXCEPT !.b = FALSE], p.iter, Some(CharZero), d,
                          <<Ev("peek", p)>>)
             ELSE Invoked([cb EXCEPT !.b = TRUE], n.iter, n.ret, d,
                          <<Ev("peek", p), Ev("next", n)>>)
        ELSE Invoked(cb, p.iter, None, d, <<Ev("peek", p)>>)

\* Scenario D's callback: returns a captured counter, then increments it.
SyntheticClosure == [kind |-> "synthetic", n |-> 0]
SyntheticCallback(cb, d) ==
    Invoked([cb EXCEPT !.n = @ + 1], d, Some(cb.n), d, <<>>)

\* Any other callback F: FnMut(&mut D) -> Option<R>, as the list of what it
\* does call by call: hand out the data's next item, drop one item and hand
\* out the one after, synthesise an item of its own (a negative number,
\* which no source holds), signal the end, or panic (before or after
\* advancing). Once the list is used up it signals the end.
ScriptOps == {"advance", "skip", "inject", "end", "panic", "advance_panic"}
ScriptClosure(ops) == [kind |-> "script", ops |-> ops]
ScriptCallback(cb, d) ==
    LET rest == [cb EXCEPT !.ops = Tail(@)]
        n1 == IterNext(d)
        n2 == IterNext(n1.iter)
    IN  IF cb.ops = <<>> THEN Invoked(cb, d, None, d, <<>>)
        ELSE CASE Head(cb.ops) = "advance" ->
                    Invoked(rest, n1.iter, Copied(n1.ret, d), d,
                            <<Ev("next", n1)>>)
               [] Head(cb.ops) = "skip" ->
                    Invoked(rest, n2.iter, Copied(n2.ret, d), d,
                            <<Ev("next", n1), Ev("next", n2)>>)
               [] Head(cb.ops) = "inject" ->
                    Invoked(rest, d, Some(0 - Len(cb.ops)), d, <<>>)
               [] Head(cb.ops) = "end" ->
                    Invoked(rest, d, None, d, <<>>)
               [] Head(cb.ops) = "panic" ->
                    Invoked(rest, d, Panic, d, <<>>)
               [] OTHER ->
                    Invoked(rest, n1.iter, Panic, d, <<Ev("next", n1)>>)

\* ------------------------------------------------------ ParamFromFnIter
\* ParamFromFnIter::new
new(data, callback) == [callback |-> callback, data |-> data]

\* The closure chunk() hands to ParamFromFnIter::new: it captures the
\* counter i, chunk_size and a clone of the Rc.
ChunkClosure(chunk_size) ==
    [kind |-> "chunk", i |-> 0, chunk_size |-> chunk_size]
\* chunk(chunk_size, data)
chunk(chunk_size) == new(Unit, ChunkClosure(chunk_size))
\* A slip: `i <= chunk_size`.
ChunkCallback_OffByOne(cb, d, cell) ==
    LET b == borrow_mut(cell)
        n == IterNext(b.cell.value)
        counted == [cb EXCEPT !.i = @ + 1]
    IN  IF cb.i <= cb.chunk_size
        THEN IF b.ok
             THEN [call |-> Invoked(counted, d, n.ret, d,
                       <<<<"borrow_mut", TRUE>>, Ev("next", n),
                         <<"drop", TRUE>>>>),
                   heap |-> drop_ref_mut(b.cell, n.iter)]
             ELSE [call |-> Invoked(counted, d, Panic, d,
                       <<<<"borrow_mut", FALSE>>>>),
                   heap |-> cell]
        ELSE [call |-> Invoked(cb, d, None, d, <<>>), heap |-> cell]
\* The RefMut made by `data.borrow_mut()` lives until the closure returns.
ChunkCallback(cb, d, cell) ==
    LET b == borrow_mut(cell)
        n == IterNext(b.cell.value)
        counted == [cb EXCEPT !.i = @ + 1]
    IN  IF cb.i < cb.chunk_size
        THEN IF b.ok
             THEN [call |-> Invoked(counted, d, n.ret, d,
                       <<<<"borrow_mut", TRUE>>, Ev("next", n),
                         <<"drop", TRUE>>>>),
                   heap |-> drop_ref_mut(b.cell, n.iter)]
             ELSE [call |-> Invoked(counted, d, Panic, d,
                       <<<<"borrow_mut", FALSE>>>>),
                   heap |-> cell]
        ELSE [call |-> Invoked(cb, d, None, d, <<>>), heap |-> cell]

\* The closure chunker() hands to ParamFromFnIter::new: it captures
\* chunk_size and the Rc p.
ChunkerClosure(chunk_size) == [kind |-> "chunker", chunk_size |-> chunk_size]
\* A slip: the RefMut is bound by a `let` and so lives to the closure's end,
\* across the building of the chunk.
ChunkerCallback_HoldsBorrow(cb, d, cell) ==
    LET b == borrow_mut(cell)
        p == PeekablePeek(b.cell.value)
        held == [b.cell EXCEPT !.value = p.iter]
        released == drop_ref_mut(b.cell, p.iter)
    IN  IF ~b.ok
        THEN [call |-> Invoked(cb, d, Panic, d, <<<<"borrow_mut", FALSE>>>>),
              heap |-> cell]
        ELSE IF p.ret # None
        THEN [call |-> Invoked(cb, d, Some(chunk(cb.chunk_size)), d,
                  <<<<"borrow_mut", TRUE>>, Ev("peek", p),
                    <<"chunk", held.borrow = 0>>, <<"drop", TRUE>>>>),
              heap |-> released]
        ELSE [call |-> Invoked(cb, d, None, d,
                  <<<<"borrow_mut", TRUE>>, Ev("peek", p),
                    <<"drop", TRUE>>>>),
              heap |-> released]
\* The RefMut made by `p.borrow_mut()` is a temporary of the `if`
\* condition: it is dropped before either branch runs.
ChunkerCallback(cb, d, cell) ==
    LET b == borrow_mut(cell)
        p == PeekablePeek(b.cell.value)
        released == drop_ref_mut(b.cell, p.iter)
    IN  IF ~b.ok
        THEN [call |-> Invoked(cb, d, Panic, d, <<<<"borrow_mut", FALSE>>>>),
              heap |-> cell]
        ELSE IF p.ret # None
        THEN [call |-> Invoked(cb, d, Some(chunk(cb.chunk_size)), d,
                  <<<<"borrow_mut", TRUE>>, Ev("peek", p), <<"drop", TRUE>>,
                    <<"chunk", released.borrow = 0>>>>),
              heap |-> released]
        ELSE [call |-> Invoked(cb, d, None, d,
                  <<<<"borrow_mut", TRUE>>, Ev("peek", p),
                    <<"drop", TRUE>>>>),
              heap |-> released]

\* chunker(chunk_size, data): the shared cell p and the outer iterator.
chunker(chunk_size, data) ==
    [heap |-> RefCellNew(Peekable(data)),
     iter |-> new(Unit, ChunkerClosure(chunk_size))]

\* (self.callback)(&mut self.data): the call of the stored closure; heap is
\* the memory the closure reaches through what it captured.
Invoke(cb, d, heap) ==
    CASE cb.kind = "counter" -> [call |-> CounterCallback(cb, d), heap |-> heap]
      [] cb.kind = "peeking" -> [call |-> PeekingCallback(cb, d), heap |-> heap]
      [] cb.kind = "synthetic" ->
            [call |-> SyntheticCallback(cb, d), heap |-> heap]
      [] cb.kind = "chunk" -> ChunkCallback(cb, d, heap)
      [] cb.kind = "chunker" -> ChunkerCallback(cb, d, heap)
      [] OTHER -> [call |-> ScriptCallback(cb, d), heap |-> heap]

\* A slip: the callback is invoked twice and the second result returned.
next_twice(self, heap) ==
    LET r1 == Invoke(self.callback, self.data, heap)
        r2 == Invoke(r1.call.callback, r1.call.data, r1.heap)
    IN  [self |-> [callback |-> r2.call.callback, data |-> r2.call.data],
         ret |-> r2.call.ret,
         calls |-> <<r1.call, r2.call>>,
         heap |-> r2.heap]

\* A slip: the iterator is fused, an end-signal is remembered and returned
\* from then on without invoking the callback.
next_fused(self, heap) ==
    LET r == Invoke(self.callback, self.data, heap)
    IN  IF "exhausted" \in DOMAIN self
        THEN [self |-> self, ret |-> None, calls |-> <<>>, heap |-> heap]
        ELSE [self |-> IF r.call.ret = None
                       THEN [callback |-> r.call.callback,
                             data |-> r.call.data, exhausted |-> TRUE]
                       ELSE [callback |-> r.call.callback,
                             data |-> r.call.data],
              ret |-> r.call.ret,
              calls |-> <<r.call>>,
              heap |-> r.heap]

\* A slip: a copy of the callback is invoked, what it captured is lost.
next_stale_callback(self, heap) ==
    LET r == Invoke(self.callback, self.data, heap)
    IN  [self |-> [callback |-> self.callback, data |-> r.call.data],
         ret |-> r.call.ret,
         calls |-> <<r.call>>,
         heap |-> r.heap]

\* A slip: a panic of the callback is caught and turned into the end-signal.
next_catches(self, heap) ==
    LET r == Invoke(self.callback, self.data, heap)
    IN  [self |-> [callback |-> r.call.callback, data |-> r.call.data],
         ret |-> IF r.call.ret = Panic THEN None ELSE r.call.ret,
         calls |-> <<r.call>>,
         heap |-> r.heap]

\* Iterator::next for ParamFromFnIter. `self` is the iterator afterwards,
\* `ret` what the call returns (or Panic when it unwinds), `calls` the
\* callback invocations it made, in order.
next(self, heap) ==
    LET r == Invoke(self.callback, self.data, heap)
    IN  [self |-> [callback |-> r.call.callback, data |-> r.call.data],
         ret |-> r.call.ret,
         calls |-> <<r.call>>,
         heap |-> r.heap]

\* A slip: iter_map pulls the first item off the source.
iter_map_primed(self, callback) ==
    new(IterNext(into_iter(self)).iter, callback)

\* A slip: iter_map invokes the callback once while constructing.
iter_map_eager(self, callback) ==
    LET r == Invoke(callback, into_iter(self), <<>>)
    IN  new(r.call.data, r.call.callback)

\* IntoIterMap::iter_map
iter_map(self, callback) == new(into_iter(self), callback)

\* ---------------------------------------------------------------- state
VARIABLES
    pc,        \* "start" before construction, then "ready", "done", "panicked"
    driver,    \* the consumer: "direct" calls of next(), "collect", the
               \* nested "for" loops of the chunker example, or "free"
    source,    \* the source (or the unit state) the program starts from
    closure,   \* the callback as handed to the constructor
    iter,      \* the ParamFromFnIter, <<>> before construction
    twin,      \* a second ParamFromFnIter run side by side, with its results
    heap,      \* the shared RefCell of the chunker example, <<>> if none
    nest,      \* the chunks handed out by the chunker and what they yielded
    last,      \* <<>> or <<what the latest next() call did>>
    results,   \* what every next() call on iter returned, in order
    cbrets,    \* what every invocation of iter's callback returned, in order
    tally,     \* calls the callback made through the reference, summed up
    out        \* the items collected

vars == <<pc, driver, source, closure, iter, twin, heap, nest, last, results,
          cbrets, tally, out>>

IntSources == SeqsUpTo(0 .. 1, MaxLen) \cup {DocArray}
CharSources == SeqsUpTo({CharO, CharL}, MaxLen) \cup {DocString}
ScriptSources == SeqsUpTo(0 .. 1, MaxScriptSrc)
Scripts == SeqsUpTo(ScriptOps, MaxScript)
ChunkSources == {[k \in 1 .. n |-> k] : n \in 0 .. MaxChunkSrc} \cup {DocArray}
ChunkSizes == (0 .. MaxChunk) \cup {DocChunkSize}

\* The programs modelled: a source and the callback attached to it.
Setups ==
    {[source |-> Array(s), closure |-> CounterClosure] : s \in IntSources}
    \cup {[source |-> Peekable(Chars(s)), closure |-> PeekingClosure] :
            s \in CharSources}
    \cup {[source |-> Unit, closure |-> SyntheticClosure]}
    \cup {[source |-> Array(s), closure |-> ScriptClosure(ops)] :
            s \in ScriptSources, ops \in Scripts}

NoNest == [chunks |-> <<>>, got |-> <<>>, ended |-> <<>>, cur |-> 0,
           pulls |-> 0]

Fresh ==
    /\ pc = "start"
    /\ iter = <<>>
    /\ twin = <<>>
    /\ heap = <<>>
    /\ nest = NoNest
    /\ last = <<>>
    /\ results = <<>>
    /\ cbrets = <<>>
    /\ tally = [touches |-> 0, advances |-> 0, hits |-> 0]
    /\ out = <<>>

Init ==
    /\ Fresh
    /\ driver \in {"direct", "collect"}
    /\ \E su \in Setups : source = su.source /\ closure = su.closure

\* The state the caller hands to ParamFromFnIter::new: the unit value, or
\* the iterator the caller made of the source.
StateOf(src) == IF src.kind = "unit" THEN src ELSE into_iter(src)

RECURSIVE Flatten(_)
Flatten(ss) == IF ss = <<>> THEN <<>> ELSE Head(ss) \o Flatten(Tail(ss))

\* The calls a list of callback invocations made through the reference.
EventsOf(calls) == Flatten([k \in 1 .. Len(calls) |-> calls[k].events])
RetsOf(calls) == [k \in 1 .. Len(calls) |-> calls[k].ret]
IsNext(e) == e[1] = "next"
IsHit(e) == e[1] = "next" /\ e[2]
CountNext(events) == Cardinality({k \in 1 .. Len(events) : IsNext(events[k])})
CountHit(events) == Cardinality({k \in 1 .. Len(events) : IsHit(events[k])})

\* What a next() call r on an iterator whose data was d leaves behind.
Latest(d, r) ==
    <<[pre |-> d, calls |-> r.calls, ret |-> r.ret, stored |-> r.self.data]>>

\* What a next() call r on iter leaves in the observation variables.
Observe(r) ==
    /\ last' = Latest(iter.data, r)
    /\ results' = Append(results, r.ret)
    /\ cbrets' = cbrets \o RetsOf(r.calls)
    /\ tally' = [touches |-> tally.touches + Len(EventsOf(r.calls)),
                 advances |-> tally.advances + CountNext(EventsOf(r.calls)),
                 hits |-> tally.hits + CountHit(EventsOf(r.calls))]

\* let it = ParamFromFnIter::new(state, callback);
ConstructNew ==
    /\ pc = "start"
    /\ iter' = new(StateOf(source), closure)
    /\ pc' = "ready"
    /\ UNCHANGED <<driver, source, closure, twin, heap, nest, last, results,
                   cbrets, tally, out>>

\* let it = source.iter_map(callback);
ConstructIterMap ==
    /\ pc = "start"
    /\ source.kind # "unit"
    /\ iter' = iter_map(source, closure)
    /\ pc' = "ready"
    /\ UNCHANGED <<driver, source, closure, twin, heap, nest, last, results,
                   cbrets, tally, out>>

\* it.next(), called by the program itself; a panic is caught by the caller,
\* who may go on pulling.
Pull ==
    /\ pc = "ready"
    /\ driver = "direct"
    /\ Len(results) < MaxPulls
    /\ LET r == next(iter, heap)
       IN  /\ iter' = r.self
           /\ heap' = r.heap
           /\ Observe(r)
    /\ UNCHANGED <<pc, driver, source, closure, twin, nest, out>>

\* One round of the loop inside collect(): pull, push the item, stop at the
\* first end-signal; a panic unwinds through collect().
CollectStep ==
    /\ pc = "ready"
    /\ driver = "collect"
    /\ Len(results) < MaxPulls
    /\ LET r == next(iter, heap)
       IN  /\ iter' = r.self
           /\ heap' = r.heap
           /\ Observe(r)
           /\ pc' = IF r.ret = None THEN "done"
                    ELSE IF r.ret = Panic THEN "panicked" ELSE "ready"
           /\ out' = IF r.ret \in {None, Panic} THEN out
                     ELSE Append(out, r.ret[2])
    /\ UNCHANGED <<driver, source, closure, twin, nest>>

Next == ConstructNew \/ ConstructIterMap \/ Pull \/ CollectStep

Spec == Init /\ [][Next]_vars

\* ------------------------------------------- iter_map beside new(into_iter)
InitEquiv == Init /\ driver = "direct"

\* let a = source.iter_map(callback);
\* let b = ParamFromFnIter::new(source.into_iter(), callback);
ConstructBoth ==
    /\ pc = "start"
    /\ source.kind # "unit"
    /\ iter' = iter_map(source, closure)
    /\ twin' = [iter |-> new(into_iter(source), closure), results |-> <<>>]
    /\ pc' = "ready"
    /\ UNCHANGED <<driver, source, closure, heap, nest, last, results, cbrets,
                   tally, out>>

\* a.next() and b.next()
PullBoth ==
    /\ pc = "ready"
    /\ twin # <<>>
    /\ Len(results) < MaxPulls
    /\ LET r == next(iter, heap)
           t == next(twin.iter, heap)
       IN  /\ iter' = r.self
           /\ twin' = [iter |-> t.self, results |-> Append(twin.results, t.ret)]
           /\ heap' = r.heap
           /\ Observe(r)
    /\ UNCHANGED <<pc, driver, source, closure, nest, out>>

NextEquiv == ConstructBoth \/ PullBoth

SpecEquiv == InitEquiv /\ [][NextEquiv]_vars

\* ------------------------------------------------- the chunker example
InitChunker ==
    /\ Fresh
    /\ driver \in {"for", "free"}
    /\ \E s \in ChunkSources, c \in ChunkSizes :
          source = Array(s) /\ closure = ChunkerClosure(c)

\* chunker(chunk_size, source.iter())
ChunkerConstruct ==
    /\ pc = "start"
    /\ LET c == chunker(closure.chunk_size, into_iter(source))
       IN  iter' = c.iter /\ heap' = c.heap
    /\ pc' = "ready"
    /\ UNCHANGED <<driver, source, closure, twin, nest, last, results, cbrets,
                   tally, out>>

\* The consumer's side of a pull r on the outer iterator: a new chunk is
\* kept, and with open = TRUE it is the chunk drained next.
TakeOuter(r, open) ==
    /\ iter' = r.self
    /\ heap' = r.heap
    /\ last' = Latest(iter.data, r)
    /\ results' = Append(results, r.ret)
    /\ cbrets' = cbrets \o RetsOf(r.calls)
    /\ nest' = IF r.ret \in {None, Panic}
               THEN [nest EXCEPT !.pulls = @ + 1]
               ELSE [chunks |-> Append(nest.chunks, r.ret[2]),
                     got |-> Append(nest.got, <<>>),
                     ended |-> Append(nest.ended, FALSE),
                     cur |-> IF open THEN Len(nest.chunks) + 1 ELSE 0,
                     pulls |-> nest.pulls + 1]

\* The consumer's side of a pull r on chunk k.
TakeChunk(k, r, close) ==
    /\ heap' = r.heap
    /\ last' = Latest(nest.chunks[k].data, r)
    /\ nest' = [nest EXCEPT
                  !.chunks[k] = r.self,
                  !.got[k] = IF r.ret \in {None, Panic} THEN @
                             ELSE Append(@, r.ret[2]),
                  !.ended[k] = @ \/ r.ret = None,
                  !.cur = IF close /\ r.ret = None THEN 0 ELSE @,
                  !.pulls = @ + 1]

\* `for s in chunker(..)`: the outer loop pulls the next chunk once the
\* chunk before it is drained, and ends at the end-signal.
ForOuter ==
    /\ pc = "ready"
    /\ driver = "for"
    /\ nest.cur = 0
    /\ Len(results) < MaxPulls
    /\ LET r == next(iter, heap)
       IN  /\ TakeOuter(r, TRUE)
           /\ pc' = IF r.ret = None THEN "done"
                    ELSE IF r.ret = Panic THEN "panicked" ELSE "ready"
    /\ UNCHANGED <<driver, source, closure, twin, tally, out>>

\* `for n in s`: the inner loop pulls the chunk up to its end-signal.
ForInner ==
    /\ pc = "ready"
    /\ driver = "for"
    /\ nest.cur # 0
    /\ LET r == next(nest.chunks[nest.cur], heap)
       IN  /\ TakeChunk(nest.cur, r, TRUE)
           /\ pc' = IF r.ret = Panic THEN "panicked" ELSE "ready"
    /\ UNCHANGED <<driver, source, closure, iter, twin, results, cbrets,
                   tally, out>>

\* A pull on the outer iterator at any time, the chunks before it kept.
FreeOuter ==
    /\ pc = "ready"
    /\ driver = "free"
    /\ nest.pulls < MaxFreePulls
    /\ LET r == next(iter, heap)
       IN  /\ TakeOuter(r, FALSE)
           /\ pc' = IF r.ret = Panic THEN "panicked" ELSE "ready"
    /\ UNCHANGED <<driver, source, closure, twin, tally, out>>

\* A pull on any chunk handed out so far, at any time.
FreeChunk ==
    /\ pc = "ready"
    /\ driver = "free"
    /\ nest.pulls < MaxFreePulls
    /\ \E k \in 1 .. Len(nest.chunks) :
          LET r == next(nest.chunks[k], heap)
          IN  /\ TakeChunk(k, r, FALSE)
              /\ pc' = IF r.ret = Panic THEN "panicked" ELSE "ready"
    /\ UNCHANGED <<driver, source, closure, iter, twin, results, cbrets,
                   tally, out>>

NextChunker ==
    ChunkerConstruct \/ ForOuter \/ ForInner \/ FreeOuter \/ FreeChunk

SpecChunker == InitChunker /\ [][NextChunker]_vars

\* ----------------------------------------------------------- properties
Pulled == last # <<>>
Latest1 == last[1]
IsPrefix(a, b) == Len(a) <= Len(b) /\ a = SubSeq(b, 1, Len(a))
AllItems(rets) == \A k \in 1 .. Len(rets) : rets[k] \notin {None, Panic}

\* C1: after N calls of next() the callback has been invoked exactly N
\* times, each time on the stored data (what the callback saw on entry is
\* what was stored, what it left is what is stored afterwards), and the
\* i-th call of next() returned what the i-th invocation returned: nothing
\* skipped, merged, duplicated or cached.
C1_NextIsOneInvocation ==
    /\ Len(cbrets) = Len(results)
    /\ cbrets = results
    /\ Pulled =>
         /\ Len(Latest1.calls) = 1
         /\ Latest1.calls[1].arg = Latest1.pre
         /\ Latest1.stored = Latest1.calls[1].data
         /\ Latest1.ret = Latest1.calls[1].ret
         /\ iter = new(Latest1.calls[1].data, Latest1.calls[1].callback)

C1_Witness ==
    /\ closure.kind = "script"
    /\ Len(results) = 3
    /\ results[1] = None
    /\ results[2] = Some(0)
    /\ results[3] = Some(0 - 1)
    /\ cbrets = results

\* C3: what collect() gathers with the counter callback.
RECURSIVE ExpectedCounter(_)
ExpectedCounter(s) ==
    IF Len(s) < 2 THEN s
    ELSE <<s[1], s[2], InjectedItem>> \o ExpectedCounter(SubSeq(s, 3, Len(s)))

\* C3: collecting iter_map with the counter callback over a finite source
\* yields the source's items in order with one 0 after every second item,
\* and stops at the first pull whose counter is not a multiple of 3 and
\* finds the source exhausted; [1,2,3,4,5,6] gives [1,2,0,3,4,0,5,6,0].
C3_CounterCollect ==
    (closure.kind = "counter" /\ driver = "collect" /\ pc # "start") =>
        LET exp == ExpectedCounter(source.items)
        IN  /\ pc \in {"ready", "done"}
            /\ IsPrefix(out, exp)
            /\ pc = "ready" => Len(results) = Len(out) /\ AllItems(results)
            /\ pc = "done" =>
                 /\ out = exp
                 /\ Len(results) = Len(exp) + 1
                 /\ AllItems(SubSeq(results, 1, Len(exp)))
                 /\ results[Len(results)] = None
                 /\ iter.callback.i = Len(results)
                 /\ iter.callback.i % CounterPeriod # 0
                 /\ Latest1.calls[1].events = <<<<"next", FALSE>>>>
                 /\ Remaining(iter.data) = <<>>
            /\ (pc = "done" /\ source.items = DocArray) =>
                 out = <<1, 2, 0, 3, 4, 0, 5, 6, 0>>

C3_Witness ==
    /\ closure.kind = "counter"
    /\ driver = "collect"
    /\ pc = "done"
    /\ source.items = DocArray
    /\ out = <<1, 2, 0, 3, 4, 0, 5, 6, 0>>

RECURSIVE ExpectedPeeking(_)
ExpectedPeeking(s) ==
    IF s = <<>> THEN <<>>
    ELSE (IF Head(s) = CharO THEN <<CharZero, CharO>> ELSE <<Head(s)>>)
         \o ExpectedPeeking(Tail(s))

\* C4: collecting iter_map with the peeking callback over a finite string
\* yields every character once, in order, with exactly one '0' right before
\* each 'o' (consecutive ones too), and ends when the source is exhausted;
\* "hello world!" gives "hell0o w0orld!".
C4_PeekingCollect ==
    (closure.kind = "peeking" /\ driver = "collect" /\ pc # "start") =>
        LET exp == ExpectedPeeking(source.iter.buf)
        IN  /\ pc \in {"ready", "done"}
            /\ IsPrefix(out, exp)
            /\ pc = "ready" => Len(results) = Len(out) /\ AllItems(results)
            /\ pc = "done" =>
                 /\ out = exp
                 /\ Len(results) = Len(exp) + 1
                 /\ results[Len(results)] = None
                 /\ Remaining(iter.data) = <<>>
            /\ (pc = "done" /\ source.iter.buf = DocString) =>
                 out = <<104, 101, 108, 108, 48, 111, 32, 119, 48, 111, 114,
                         108, 100, 33>>

C4_Witness ==
    /\ closure.kind = "peeking"
    /\ driver = "collect"
    /\ pc = "done"
    /\ source.iter.buf = DocString
    /\ Len(out) = Len(DocString) + 2

\* C5: the iterator holds a callback and data and nothing else (no
\* exhausted flag); a call of next() returns the end-signal exactly when the
\* callback invocation it made did; after an end-signal a later call still
\* invokes the callback and returns its result, which may be an item: the
\* counter callback over [1,2,3,4,5,6] ends pulls 10 and 11 and returns 0
\* at pull 12.
C5_NoEndOfItsOwn ==
    /\ iter # <<>> => DOMAIN iter = {"callback", "data"}
    /\ Len(cbrets) = Len(results)
    /\ \A k \in 1 .. Len(results) : (results[k] = None) <=> (cbrets[k] = None)
    /\ (Pulled /\ \E j \in 1 .. Len(results) - 1 : results[j] = None) =>
         /\ Len(Latest1.calls) = 1
         /\ Latest1.ret = Latest1.calls[1].ret
    /\ (closure.kind = "counter" /\ source.items = DocArray
            /\ Len(results) >= 12) =>
         /\ AllItems(SubSeq(results, 1, 9))
         /\ results[10] = None
         /\ results[11] = None
         /\ results[12] = Some(InjectedItem)

C5_Witness ==
    /\ closure.kind = "counter"
    /\ source.items = DocArray
    /\ Len(results) = 12
    /\ results[11] = None
    /\ results[12] = Some(0)

\* C6: with the unit state and the callback that returns a captured counter
\* and then increments it, the first K pulls return 0, 1, ..., K-1 and no
\* pull returns the end-signal.
C6_Synthetic ==
    closure.kind = "synthetic" =>
        /\ \A k \in 1 .. Len(results) : results[k] = Some(k - 1)
        /\ pc \in {"start", "ready"}
        /\ iter # <<>> => iter.data = Unit

C6_Witness ==
    /\ closure.kind = "synthetic"
    /\ results = <<Some(0), Some(1), Some(2), Some(3), Some(4)>>

\* C9: a callback's panic is the outcome of the call of next() that made
\* the invocation and of the consumer driving the iterator: it is not turned
\* into an end-signal or an item, the callback is not invoked again for that
\* call, and a call whose invocation did not panic does not panic.
C9_PanicPropagates ==
    /\ Len(cbrets) = Len(results)
    /\ \A k \in 1 .. Len(results) : (results[k] = Panic) <=> (cbrets[k] = Panic)
    /\ Pulled =>
         /\ Len(Latest1.calls) = 1
         /\ (Latest1.ret = Panic) <=> (Latest1.calls[1].ret = Panic)
    /\ driver = "collect" =>
         /\ (pc = "panicked") <=>
               (results # <<>> /\ results[Len(results)] = Panic)
         /\ \A k \in 1 .. Len(results) - 1 : results[k] \notin {None, Panic}
         /\ Len(out) = Len(results) - (IF pc \in {"done", "panicked"} THEN 1 ELSE 0)

C9_Witness ==
    /\ driver = "collect"
    /\ pc = "panicked"
    /\ Len(out) = 2
    /\ Latest1.calls[1].events = <<<<"next", TRUE>>>>

\* The part of C8 that speaks of one state; consumedCalls is the count of
\* callback calls the consumed items are held equal to.
C8_StatePart(consumedCalls) ==
    /\ pc = "start" => iter = <<>> /\ cbrets = <<>>
    /\ (pc # "start" /\ ~Pulled) =>
         /\ iter = new(StateOf(source), closure)
         /\ cbrets = <<>>
         /\ tally.touches = 0
         /\ Remaining(iter.data) = Remaining(source)
    /\ pc # "start" =>
         Len(Remaining(source)) - Len(Remaining(iter.data)) = consumedCalls
    /\ Pulled =>
         /\ Latest1.calls # <<>>
         /\ Latest1.calls[1].arg = Latest1.pre
         /\ Latest1.stored = Latest1.calls[Len(Latest1.calls)].data
         /\ iter.data = Latest1.stored
         /\ EventsOf(Latest1.calls) = <<>> => Latest1.stored = Latest1.pre
    /\ (pc # "start" /\ tally.advances = 0) =>
         Remaining(iter.data) = Remaining(source)

\* The stored data changes only in a call of next().
C8_Step ==
    (iter # <<>> /\ iter'.data # iter.data) =>
        /\ Len(results') = Len(results) + 1
        /\ last' # <<>>
        /\ last'[1].pre = iter.data
        /\ last'[1].stored = iter'.data

\* C8 as stated: the items consumed equal the advance calls the callback
\* made.
C8_ConsumedEqualsAdvanceCalls ==
    [](C8_StatePart(tally.advances)) /\ [][C8_Step]_vars

\* C8, amended: new and iter_map invoke the callback zero times and store
\* the state as passed in (iter_map consumes no item); the stored data
\* changes only in a call of next() and only through what the callback does
\* with the reference; the items consumed equal the advance calls that
\* handed out an item (an advance call on an exhausted source consumes
\* nothing); a callback that makes no call on the data leaves it as it was.
C8_FrameOfConstructionAndPull ==
    [](C8_StatePart(tally.hits)) /\ [][C8_Step]_vars

C8_Witness ==
    /\ closure.kind = "script"
    /\ Len(source.items) = 1
    /\ Len(results) = 3
    /\ tally.advances = 2
    /\ tally.hits = 1
    /\ results[2] = None
    /\ results[3] = Some(0 - 1)
    /\ Latest1.stored = Latest1.pre
    /\ Remaining(iter.data) = <<>>

\* C2: source.iter_map(callback) and ParamFromFnIter::new(source.into_iter(),
\* callback), run side by side from the same source and callback, return the
\* same result at every pull and hold equal source iterators and equal
\* captured callback state after it.
C2_IterMapIsNewOfIntoIter ==
    twin # <<>> =>
        /\ twin.results = results
        /\ twin.iter.data = iter.data
        /\ twin.iter.callback = iter.callback

C2_Witness ==
    /\ twin # <<>>
    /\ closure.kind = "peeking"
    /\ source.iter.buf = DocString
    /\ Len(results) = 6
    /\ twin.results = results
    /\ results[5] = Some(CharZero)
    /\ results[6] = Some(CharO)

\* The items behind the references the chunks handed out.
Deref(refs) == [k \in 1 .. Len(refs) |-> source.items[refs[k][2]]]
CeilDiv(n, c) == (n + c - 1) \div c

\* C7: with chunk_size >= 1 and every chunk drained before the next outer
\* pull, the outer iterator yields ceil(n / chunk_size) chunks and then the
\* end-signal; every chunk holds chunk_size items except possibly the last,
\* none is empty, and the chunks concatenated are the source in order;
\* chunk_size 2 over [1,2,3,4,5,6] gives [1,2], [3,4], [5,6].
C7_ChunkerChunks ==
    (driver = "for" /\ closure.chunk_size >= 1 /\ pc # "start") =>
        LET n == Len(source.items)
            c == closure.chunk_size
            m == Len(nest.chunks)
        IN  /\ pc \in {"ready", "done"}
            /\ IsPrefix(Deref(Flatten(nest.got)), source.items)
            /\ \A k \in 1 .. m :
                  /\ Len(nest.got[k]) <= c
                  /\ k < m => nest.ended[k] /\ Len(nest.got[k]) = c
                  /\ nest.ended[k] => Len(nest.got[k]) >= 1
            /\ Len(results) = m + (IF pc = "done" THEN 1 ELSE 0)
            /\ AllItems(SubSeq(results, 1, m))
            /\ pc = "done" =>
                 /\ results[m + 1] = None
                 /\ m = CeilDiv(n, c)
                 /\ Deref(Flatten(nest.got)) = source.items
                 /\ \A k \in 1 .. m :
                       /\ nest.ended[k]
                       /\ Len(nest.got[k]) = IF k < m THEN c ELSE n - c * (m - 1)
            /\ (pc = "done" /\ source.items = DocArray /\ c = DocChunkSize) =>
                 [k \in 1 .. m |-> Deref(nest.got[k])]
                     = <<<<1, 2>>, <<3, 4>>, <<5, 6>>>>

C7_Witness ==
    /\ driver = "for"
    /\ pc = "done"
    /\ source.items = DocArray
    /\ closure.chunk_size = 2
    /\ Len(nest.chunks) = 3
    /\ Deref(nest.got[3]) = <<5, 6>>

\* The RefMuts alive after each call of a pull, from the calls it made.
RECURSIVE LiveAfter(_, _)
LiveAfter(events, k) ==
    IF k = 0 THEN 0
    ELSE LiveAfter(events, k - 1)
         + (IF events[k] = <<"borrow_mut", TRUE>> THEN 1
            ELSE IF events[k][1] = "drop" THEN 0 - 1 ELSE 0)

\* C10: however outer pulls and pulls on the chunks handed out so far are
\* interleaved, no pull panics on a second borrow of the shared cell: the
\* cell is unborrowed between pulls, within a pull at most one RefMut is
\* alive, the outer callback's is gone before it builds the chunk, and each
\* chunk's lasts only for its own next() on the source.
C10_NoDoubleBorrow ==
    /\ pc # "panicked"
    /\ heap # <<>> => heap.borrow = 0
    /\ Pulled =>
         LET ev == EventsOf(Latest1.calls)
         IN  /\ Latest1.ret # Panic
             /\ \A k \in 1 .. Len(ev) :
                   /\ ev[k] # <<"borrow_mut", FALSE>>
                   /\ LiveAfter(ev, k) \in {0, 1}
                   /\ ev[k][1] = "chunk" => ev[k][2] /\ LiveAfter(ev, k) = 0
                   /\ ev[k][1] \in {"next", "peek"} => LiveAfter(ev, k) = 1
             /\ LiveAfter(ev, Len(ev)) = 0

C10_Witness ==
    /\ driver = "free"
    /\ Len(nest.chunks) = 2
    /\ Len(nest.got[1]) = 1
    /\ Len(nest.got[2]) = 1
    /\ ~nest.ended[1]
    /\ ~nest.ended[2]
    /\ Latest1.calls[1].events
         = <<<<"borrow_mut", TRUE>>, <<"next", TRUE>>, <<"drop", TRUE>>>>

====
